---------------------------- MODULE Spec2Model ----------------------------
(***************************************************************************)
(* TeamService (team.service.ts) and its controller: team CRUD, CSV bulk   *)
(* import, player listing with a cache-aside read path, and team           *)
(* statistics cached under a fixed key.                                    *)
(*                                                                         *)
(* Every request runs as its own async call chain.  Each `await` on the    *)
(* relational store or on the cache is one atomic step of the request;     *)
(* steps of different requests interleave freely.                          *)
(*                                                                         *)
(* Strings that the code inspects character by character (file names,     *)
(* player names, LIKE patterns) are sequences of one-character strings.    *)
(***************************************************************************)
EXTENDS Integers, Sequences, FiniteSets, TLC

VARIABLES
    teams,             \* the rows of the team table
    nextTeamId,        \* the team table's auto-increment
    players,           \* the rows of the player table
    supportMessages,   \* the rows of the support message table
    teamStats,         \* the cache entry "teamStats"
    searchAllPlayers,  \* the cache entry "searchAllPlayers"
    req,               \* each request in flight: its operation and position
    response           \* the response sent by the step just taken, if any

store == <<teams, nextTeamId, players, supportMessages>>

cache == <<teamStats, searchAllPlayers>>

vars == <<teams, nextTeamId, players, supportMessages, teamStats,
          searchAllPlayers, req, response>>

---------------------------------------------------------------------------
(* Bounds of the model *)

MaxTeamId == 2
MaxRows == 2
MaxPlayers == 2
MaxMessages == 1

(* Program constants *)

\* findAllPlayers: the TTL of "searchAllPlayers", 1000 * 60 * 5 ms, in minutes
SearchTtl == 5
\* const { page = 1, page_size = 10, ... } = query
DefaultPage == 1
DefaultPageSize == 10

\* the requests that can be in flight at once
Reqs == {"r1", "r2"}

---------------------------------------------------------------------------
(* Strings *)

\* String.prototype.endsWith
EndsWith(s, suffix) ==
    /\ Len(s) >= Len(suffix)
    /\ SubSeq(s, Len(s) - Len(suffix) + 1, Len(s)) = suffix

DotCsv == <<".", "c", "s", "v">>

\* String.prototype.includes: the plain substring relation
Contains(s, sub) ==
    \E i \in 1..(Len(s) - Len(sub) + 1) : SubSeq(s, i, i + Len(sub) - 1) = sub

RECURSIVE LikeMatch(_, _)
\* SQL LIKE: % matches any run of characters, _ any one character
LikeMatch(s, p) ==
    IF p = <<>> THEN s = <<>>
    ELSE IF Head(p) = "%"
         THEN LikeMatch(s, Tail(p)) \/ (s # <<>> /\ LikeMatch(Tail(s), p))
         ELSE /\ s # <<>>
              /\ (Head(p) = "_" \/ Head(p) = Head(s))
              /\ LikeMatch(Tail(s), Tail(p))

\* the bound parameter `%${name}%`
LikePattern(f) == <<"%">> \o f \o <<"%">>

---------------------------------------------------------------------------
(* Rows of the store, in the store's order (ascending primary key) *)

MinId(S) == CHOOSE i \in {x.id : x \in S} : \A y \in S : i <= y.id

RECURSIVE RowsInOrder(_)
RowsInOrder(S) ==
    IF S = {} THEN <<>>
    ELSE LET first == CHOOSE x \in S : x.id = MinId(S)
         IN  <<first>> \o RowsInOrder(S \ {first})

Min(a, b) == IF a <= b THEN a ELSE b

SeqToSet(s) == {s[i] : i \in 1..Len(s)}


---------------------------------------------------------------------------
(* Requests and responses *)

NoRows == <<>>

NoFile == [originalname |-> <<>>, header |-> <<>>, lines |-> <<>>]

NoPatch == [name |-> "-", description |-> "-"]

NoQuery == [page |-> <<>>, page_size |-> <<>>, name |-> <<>>, nickname |-> <<>>]

\* the arguments of a call; each operation fills in its own
NoCall == [id |-> 0, file |-> NoFile, patch |-> NoPatch, query |-> NoQuery]

\* a request between two awaits: its operation, the await it is at, its
\* arguments and the rows it holds in a local variable
Idle == [op |-> "none", pc |-> "idle", call |-> NoCall, val |-> NoRows]

NoResponse == [op |-> "none", call |-> NoCall, status |-> "none", res |-> NoRows]

\* the operation returns rows to the controller
Returned(op, call, rows) == [op |-> op, call |-> call, status |-> "ok", res |-> rows]

\* the operation throws BadRequestException or NotFoundException
Thrown(op, call, error) == [op |-> op, call |-> call, status |-> error, res |-> NoRows]

---------------------------------------------------------------------------
(* CSV upload: TeamService.create *)

FileNames == { <<"t", ".", "c", "s", "v">>, <<"t", ".", "t", "x", "t">>,
               <<".", "c", "s", "v", "x">> }

Headers == { <<"name", "description">>, <<"description", "name", "extra">>,
             <<"name">> }

Lines == { <<"A">>, <<"A", "B">>, <<"B", "B", "A">> }

CsvBodies == UNION {[1..n -> Lines] : n \in 0..MaxRows}

Files == [originalname : FileNames, header : Headers, lines : CsvBodies]

\* papaparse with header: true: a row maps each header column to the field
\* at its position; fields past the header go to __parsed_extra, columns
\* past the fields are left undefined
ParseRow(header, line) ==
    LET n == Min(Len(header), Len(line))
        named == [c \in {header[i] : i \in 1..n}
                    |-> line[CHOOSE i \in 1..n : header[i] = c]]
    IN  IF Len(line) > Len(header)
        THEN [c \in DOMAIN named \cup {"__parsed_extra"} |->
                 IF c = "__parsed_extra" THEN "extra" ELSE named[c]]
        ELSE named

Parse(file) == [i \in 1..Len(file.lines) |-> ParseRow(file.header, file.lines[i])]

\* teamData[column]: undefined when the row has no such column
Field(teamData, column) ==
    IF column \in DOMAIN teamData THEN teamData[column] ELSE "undefined"

\* _.isNil(teamData[column])
IsNil(teamData, column) == Field(teamData, column) = "undefined"

InvalidRow(teamData) == IsNil(teamData, "name") \/ IsNil(teamData, "description")

CreateTeamDtos(teamsData) ==
    [i \in 1..Len(teamsData) |->
        [name |-> Field(teamsData[i], "name"),
         description |-> Field(teamsData[i], "description")]]

\* teamRepository.save(dtos): one insert per dto, in one transaction, the
\* ids taken from the auto-increment
Saved(dtos) ==
    {[id |-> nextTeamId + i - 1, name |-> dtos[i].name,
      description |-> dtos[i].description] : i \in 1..Len(dtos)}

CreateThrowsFirstRowOnly(file) ==
    \/ ~EndsWith(file.originalname, DotCsv)
    \/ Len(file.lines) > 0 /\ InvalidRow(Parse(file)[1])

\* the two BadRequestExceptions of create that an upload can run into
CreateThrows(file) ==
    \/ ~EndsWith(file.originalname, DotCsv)
    \/ \E i \in 1..Len(file.lines) : InvalidRow(Parse(file)[i])

create(r, file) ==
    /\ req[r].pc = "idle"
    /\ IF CreateThrows(file)
       THEN /\ response' = Thrown("create", [NoCall EXCEPT !.file = file], "BadInput")
            /\ UNCHANGED <<teams, nextTeamId>>
       ELSE LET dtos == CreateTeamDtos(Parse(file))
            IN  /\ nextTeamId + Len(dtos) - 1 <= MaxTeamId
                /\ teams' = teams \cup Saved(dtos)
                /\ nextTeamId' = nextTeamId + Len(dtos)
                /\ response' = Returned("create", [NoCall EXCEPT !.file = file], NoRows)
    /\ UNCHANGED <<players, supportMessages, cache, req>>

---------------------------------------------------------------------------
(* Team CRUD *)

TeamIds == 1..MaxTeamId

\* teamRepository.findOneBy({ id })
FindOneBy(id) == {t \in teams : t.id = id}

VerifyTeamByIdAnyRow(id) == teams # {}

\* verifyTeamById: passes when the row is there, else NotFoundException
VerifyTeamById(id) == FindOneBy(id) # {}

findOne(r, id) ==
    /\ req[r].pc = "idle"
    /\ response' = IF VerifyTeamById(id)
                   THEN Returned("findOne", [NoCall EXCEPT !.id = id],
                                 RowsInOrder(FindOneBy(id)))
                   ELSE Thrown("findOne", [NoCall EXCEPT !.id = id], "NotFound")
    /\ UNCHANGED <<store, cache, req>>

\* UpdateTeamDto: each field optional ("-" is a field left out), one given
PatchValues == {"C"}

Patches == {p \in [name : PatchValues \cup {"-"}, description : PatchValues \cup {"-"}] :
              p # NoPatch}

ApplyPatchOverwrite(t, patch) ==
    [t EXCEPT !.name = patch.name, !.description = patch.description]

\* the SET clause of teamRepository.update: the fields the dto defines
ApplyPatch(t, patch) ==
    [t EXCEPT !.name = IF patch.name = "-" THEN @ ELSE patch.name,
              !.description = IF patch.description = "-" THEN @ ELSE patch.description]

updateVerifyUnchecked(r, id, patch) ==
    /\ req[r].pc = "idle"
    /\ req' = [req EXCEPT ![r] = [Idle EXCEPT !.op = "update", !.pc = "write",
                 !.call = [NoCall EXCEPT !.id = id, !.patch = patch]]]
    /\ response' = NoResponse
    /\ UNCHANGED <<store, cache>>

\* update, up to its first await: verifyTeamById
updateVerify(r, id, patch) ==
    /\ req[r].pc = "idle"
    /\ IF VerifyTeamById(id)
       THEN /\ req' = [req EXCEPT ![r] = [Idle EXCEPT !.op = "update", !.pc = "write",
                         !.call = [NoCall EXCEPT !.id = id, !.patch = patch]]]
            /\ response' = NoResponse
       ELSE /\ response' = Thrown("update", [NoCall EXCEPT !.id = id, !.patch = patch],
                                  "NotFound")
            /\ UNCHANGED req
    /\ UNCHANGED <<store, cache>>

\* teamRepository.update({ id }, updateTeamDto)
updateWrite(r) ==
    /\ req[r].op = "update" /\ req[r].pc = "write"
    /\ teams' = {IF t.id = req[r].call.id THEN ApplyPatch(t, req[r].call.patch) ELSE t :
                   t \in teams}
    /\ req' = [req EXCEPT ![r] = Idle]
    /\ response' = Returned("update", req[r].call, NoRows)
    /\ UNCHANGED <<nextTeamId, players, supportMessages, cache>>

\* delete, up to its first await: verifyTeamById
deleteVerify(r, id) ==
    /\ req[r].pc = "idle"
    /\ IF VerifyTeamById(id)
       THEN /\ req' = [req EXCEPT ![r] = [Idle EXCEPT !.op = "delete", !.pc = "write",
                         !.call = [NoCall EXCEPT !.id = id]]]
            /\ response' = NoResponse
       ELSE /\ response' = Thrown("delete", [NoCall EXCEPT !.id = id], "NotFound")
            /\ UNCHANGED req
    /\ UNCHANGED <<store, cache>>

deleteWriteEvicting(r) ==
    /\ req[r].op = "delete" /\ req[r].pc = "write"
    /\ teams' = {t \in teams : t.id # req[r].call.id}
    /\ req' = [req EXCEPT ![r] = Idle]
    /\ response' = Returned("delete", req[r].call, NoRows)
    /\ teamStats' = [present |-> FALSE, val |-> NoRows]
    /\ UNCHANGED <<nextTeamId, players, supportMessages, searchAllPlayers>>

\* teamRepository.delete({ id })
deleteWrite(r) ==
    /\ req[r].op = "delete" /\ req[r].pc = "write"
    /\ teams' = {t \in teams : t.id # req[r].call.id}
    /\ req' = [req EXCEPT ![r] = Idle]
    /\ response' = Returned("delete", req[r].call, NoRows)
    /\ UNCHANGED <<nextTeamId, players, supportMessages, cache>>

---------------------------------------------------------------------------
(* Player queries *)

\* if (name) / if (nickname): an absent and an empty filter add no condition
Supplied(f) == f # <<>>

\* andWhere('player.<column> LIKE :<column>', `%${filter}%`)
AndWhereLike(value, f) == Supplied(f) => LikeMatch(value, LikePattern(f))

\* const { page = 1, page_size = 10 } = query; an absent field is <<>>
OrDefault(field, default) == IF field = <<>> THEN default ELSE field[1]

\* findAllPlayers' query builder, run by getMany: skip and take are
\* commented out
AllPlayersQuery(q) ==
    SelectSeq(RowsInOrder(players),
              LAMBDA p : AndWhereLike(p.name, q.name) /\ AndWhereLike(p.nickname, q.nickname))

\* .skip(n).take(m) of a result
SkipTake(rows, n, m) == SubSeq(rows, n + 1, Min(n + m, Len(rows)))

\* findPlayersByTeamId's query builder, run by getMany
TeamPlayersQuery(teamId, q) ==
    LET page == OrDefault(q.page, DefaultPage)
        page_size == OrDefault(q.page_size, DefaultPageSize)
        matching == SelectSeq(RowsInOrder(players),
                        LAMBDA p : /\ p.team_id = teamId
                                   /\ AndWhereLike(p.name, q.name)
                                   /\ AndWhereLike(p.nickname, q.nickname))
    IN  SkipTake(matching, (page - 1) * page_size, page_size)

NameFilters == { <<>>, <<"a">>, <<"_">> }

NicknameFilters == { <<>>, <<"x">>, <<"y">> }

\* no paging given, or the second page of pages of one row
Pagings == { [page |-> <<>>, page_size |-> <<>>], [page |-> <<2>>, page_size |-> <<1>>] }

Queries == {[page |-> p.page, page_size |-> p.page_size, name |-> n, nickname |-> k] :
              p \in Pagings, n \in NameFilters, k \in NicknameFilters}

\* if (name && nickname)
BothSupplied(q) == Supplied(q.name) /\ Supplied(q.nickname)

\* findAllPlayers with at most one filter: the query, uncached
findAllPlayersDirect(r, q) ==
    /\ req[r].pc = "idle"
    /\ ~BothSupplied(q)
    /\ response' = Returned("findAllPlayers", [NoCall EXCEPT !.query = q],
                            AllPlayersQuery(q))
    /\ UNCHANGED <<store, cache, req>>

\* findAllPlayers with both filters, up to cacheManager.get
findAllPlayersGet(r, q) ==
    /\ req[r].pc = "idle"
    /\ BothSupplied(q)
    /\ IF searchAllPlayers.present
       THEN /\ response' = Returned("findAllPlayers", [NoCall EXCEPT !.query = q],
                                    searchAllPlayers.val)
            /\ UNCHANGED req
       ELSE /\ req' = [req EXCEPT ![r] = [Idle EXCEPT !.op = "findAllPlayers",
                          !.pc = "query", !.call = [NoCall EXCEPT !.query = q]]]
            /\ response' = NoResponse
    /\ UNCHANGED <<store, cache>>

\* searchAllPlayers = await queryBuilder.getMany()
findAllPlayersQuery(r) ==
    /\ req[r].op = "findAllPlayers" /\ req[r].pc = "query"
    /\ req' = [req EXCEPT ![r].pc = "set",
                          ![r].val = AllPlayersQuery(req[r].call.query)]
    /\ response' = NoResponse
    /\ UNCHANGED <<store, cache>>

SearchEntryShortLived(rows) ==
    [present |-> TRUE, val |-> rows, ttl |-> 1, age |-> 0]

\* the entry that set('searchAllPlayers', rows, 1000 * 60 * 5) stores
SearchEntry(rows) ==
    [present |-> TRUE, val |-> rows, ttl |-> SearchTtl, age |-> 0]

\* cacheManager.set('searchAllPlayers', ...), and the return
findAllPlayersSet(r) ==
    /\ req[r].op = "findAllPlayers" /\ req[r].pc = "set"
    /\ searchAllPlayers' = SearchEntry(req[r].val)
    /\ response' = Returned("findAllPlayers", req[r].call, req[r].val)
    /\ req' = [req EXCEPT ![r] = Idle]
    /\ UNCHANGED <<store, teamStats>>

findPlayersByTeamId(r, teamId, q) ==
    /\ req[r].pc = "idle"
    /\ response' = Returned("findPlayersByTeamId",
                            [NoCall EXCEPT !.id = teamId, !.query = q],
                            TeamPlayersQuery(teamId, q))
    /\ UNCHANGED <<store, cache, req>>

---------------------------------------------------------------------------
(* Team statistics *)

\* team LEFT JOIN player LEFT JOIN supportMessage for one team: a missing
\* side joins as NULL, written 0 (ids start at 1)
LeftJoin(t) ==
    LET ps == {p.id : p \in {x \in players : x.team_id = t.id}}
        ms == {m.id : m \in {x \in supportMessages : x.team_id = t.id}}
    IN  {[player_id |-> p, supportMessage_id |-> m] :
            p \in (IF ps = {} THEN {0} ELSE ps), m \in (IF ms = {} THEN {0} ELSE ms)}

CountRows(group, column) == Cardinality({j \in group : j[column] # 0})

\* COUNT(DISTINCT column) over a group: NULLs are not counted
CountDistinct(group, column) == Cardinality({j[column] : j \in group} \ {0})

\* the aggregate query of getTeamStats, run by getRawMany: one row per team
TeamStatsQuery ==
    RowsInOrder({[id |-> t.id, name |-> t.name,
                  playerCount |-> CountDistinct(LeftJoin(t), "player_id"),
                  supportMessageCount |-> CountDistinct(LeftJoin(t), "supportMessage_id")] :
                 t \in teams})

\* getTeamStats, up to cacheManager.get('teamStats')
getTeamStatsGet(r) ==
    /\ req[r].pc = "idle"
    /\ IF teamStats.present
       THEN /\ response' = Returned("getTeamStats", NoCall, teamStats.val)
            /\ UNCHANGED req
       ELSE /\ req' = [req EXCEPT ![r] = [Idle EXCEPT !.op = "getTeamStats", !.pc = "query"]]
            /\ response' = NoResponse
    /\ UNCHANGED <<store, cache>>

\* stats = await ...getRawMany()
getTeamStatsQuery(r) ==
    /\ req[r].op = "getTeamStats" /\ req[r].pc = "query"
    /\ req' = [req EXCEPT ![r].pc = "set", ![r].val = TeamStatsQuery]
    /\ response' = NoResponse
    /\ UNCHANGED <<store, cache>>

getTeamStatsSetIfAbsent(r) ==
    /\ req[r].op = "getTeamStats" /\ req[r].pc = "set"
    /\ teamStats' = IF teamStats.present THEN teamStats
                    ELSE [present |-> TRUE, val |-> req[r].val]
    /\ response' = Returned("getTeamStats", NoCall, req[r].val)
    /\ req' = [req EXCEPT ![r] = Idle]
    /\ UNCHANGED <<store, searchAllPlayers>>

\* cacheManager.set('teamStats', stats), and the return
getTeamStatsSet(r) ==
    /\ req[r].op = "getTeamStats" /\ req[r].pc = "set"
    /\ teamStats' = [present |-> TRUE, val |-> req[r].val]
    /\ response' = Returned("getTeamStats", NoCall, req[r].val)
    /\ req' = [req EXCEPT ![r] = Idle]
    /\ UNCHANGED <<store, searchAllPlayers>>

---------------------------------------------------------------------------
(* The rest of the application, and the cache store *)

PlayerProfiles == { [name |-> <<"a", "b">>, nickname |-> <<"x">>],
                    [name |-> <<"b">>, nickname |-> <<"x", "y">>] }

\* a player is registered with a team that exists
playerJoin(profile, team_id) ==
    /\ Cardinality(players) < MaxPlayers
    /\ FindOneBy(team_id) # {}
    /\ players' = players \cup {[id |-> Cardinality(players) + 1, name |-> profile.name,
                                 nickname |-> profile.nickname, team_id |-> team_id]}
    /\ response' = NoResponse
    /\ UNCHANGED <<teams, nextTeamId, supportMessages, cache, req>>

\* a support message is posted to a team that exists
messagePost(team_id) ==
    /\ Cardinality(supportMessages) < MaxMessages
    /\ FindOneBy(team_id) # {}
    /\ supportMessages' = supportMessages \cup
                            {[id |-> Cardinality(supportMessages) + 1, team_id |-> team_id]}
    /\ response' = NoResponse
    /\ UNCHANGED <<teams, nextTeamId, players, cache, req>>

NoEntry == [present |-> FALSE, val |-> NoRows, ttl |-> 0, age |-> 0]

\* an entry set with a TTL is gone once its age reaches the TTL
Elapse(entry, d) ==
    IF entry.present /\ entry.age + d < entry.ttl
    THEN [entry EXCEPT !.age = @ + d]
    ELSE NoEntry

\* minutes that pass between two steps
Delays == {SearchTtl - 1, SearchTtl}

tick(d) ==
    /\ searchAllPlayers.present
    /\ searchAllPlayers' = Elapse(searchAllPlayers, d)
    /\ response' = NoResponse
    /\ UNCHANGED <<store, teamStats, req>>

---------------------------------------------------------------------------
(* Specifications *)

NoStats == [present |-> FALSE, val |-> NoRows]

Init ==
    /\ teams = {}
    /\ nextTeamId = 1
    /\ players = {}
    /\ supportMessages = {}
    /\ teamStats = NoStats
    /\ searchAllPlayers = NoEntry
    /\ req = [r \in Reqs |-> Idle]
    /\ response = NoResponse

\* well-formed uploads of teams named A
TeamFiles ==
    {f \in Files : /\ f.originalname = <<"t", ".", "c", "s", "v">>
                   /\ f.header = <<"name", "description">>
                   /\ \A i \in 1..Len(f.lines) : f.lines[i] = <<"A", "B">>}

\* team CRUD under concurrent requests
Next ==
    \E r \in Reqs :
        \/ \E file \in TeamFiles : create(r, file)
        \/ \E id \in TeamIds : findOne(r, id)
        \/ \E id \in TeamIds, patch \in Patches : updateVerify(r, id, patch)
        \/ updateWrite(r)
        \/ \E id \in TeamIds : deleteVerify(r, id)
        \/ deleteWrite(r)

Spec == Init /\ [][Next]_vars

\* uploads of every shape, the requests served one after the other
NextCsv == \E r \in {"r1"}, file \in Files : create(r, file)

SpecCsv == Init /\ [][NextCsv]_vars

\* the players that the statistics count
StatsProfile == [name |-> <<"b">>, nickname |-> <<"x", "y">>]

\* team statistics while teams, players and support messages come and go,
\* the requests served one after the other
NextStats ==
    \/ \E r \in {"r1"} :
          \/ \E file \in TeamFiles : create(r, file)
          \/ \E id \in TeamIds : deleteVerify(r, id)
          \/ deleteWrite(r)
          \/ getTeamStatsGet(r)
          \/ getTeamStatsQuery(r)
          \/ getTeamStatsSet(r)
    \/ \E id \in TeamIds : playerJoin(StatsProfile, id)
    \/ \E id \in TeamIds : messagePost(id)

SpecStats == Init /\ [][NextStats]_vars

CachedQuery == [NoQuery EXCEPT !.name = <<"_">>, !.nickname = <<"x">>]

\* the writes of the service against both cache entries, the requests
\* served one after the other
NextCache ==
    \/ \E r \in {"r1"} :
          \/ \E file \in TeamFiles : create(r, file)
          \/ \E id \in TeamIds : updateVerify(r, id, [NoPatch EXCEPT !.name = "C"])
          \/ updateWrite(r)
          \/ \E id \in TeamIds : deleteVerify(r, id)
          \/ deleteWrite(r)
          \/ getTeamStatsGet(r)
          \/ getTeamStatsQuery(r)
          \/ getTeamStatsSet(r)
          \/ findAllPlayersGet(r, CachedQuery)
          \/ findAllPlayersQuery(r)
          \/ findAllPlayersSet(r)
    \/ playerJoin(StatsProfile, 1)

SpecCache == Init /\ [][NextCache]_vars

\* two teams as an upload of two rows leaves them
SeedTeams == {[id |-> 1, name |-> "A", description |-> "B"],
              [id |-> 2, name |-> "B", description |-> "A"]}

InitPlayers ==
    /\ teams = SeedTeams
    /\ nextTeamId = Cardinality(SeedTeams) + 1
    /\ players = {}
    /\ supportMessages = {}
    /\ teamStats = NoStats
    /\ searchAllPlayers = NoEntry
    /\ req = [r \in Reqs |-> Idle]
    /\ response = NoResponse

\* player listing while players register and time passes, the requests
\* served one after the other
NextPlayers ==
    \/ \E r \in {"r1"} :
          \/ \E q \in Queries : findAllPlayersDirect(r, q)
          \/ \E q \in Queries : findAllPlayersGet(r, q)
          \/ findAllPlayersQuery(r)
          \/ findAllPlayersSet(r)
          \/ \E id \in TeamIds, q \in Queries : findPlayersByTeamId(r, id, q)
    \/ \E profile \in PlayerProfiles, id \in TeamIds : playerJoin(profile, id)
    \/ \E d \in Delays : tick(d)

SpecPlayers == InitPlayers /\ [][NextPlayers]_vars

\* the two-filter searches that differ in their filters only
CachedQueries == {q \in Queries : BothSupplied(q) /\ q.page = <<>> /\ q.page_size = <<>>}

\* concurrent cache-aside reads while players register
NextRace ==
    \/ \E r \in Reqs :
          \/ \E q \in CachedQueries : findAllPlayersGet(r, q)
          \/ findAllPlayersQuery(r)
          \/ findAllPlayersSet(r)
          \/ getTeamStatsGet(r)
          \/ getTeamStatsQuery(r)
          \/ getTeamStatsSet(r)
    \/ \E profile \in PlayerProfiles, id \in TeamIds : playerJoin(profile, id)

SpecRace == InitPlayers /\ [][NextRace]_vars

---------------------------------------------------------------------------
(* C1: createFromCsv is all-or-nothing *)

\* the value a line of the file gives for a column of the header, if any
ColumnValues(file, i, column) ==
    {file.lines[i][k] : k \in {j \in 1..Len(file.lines[i]) :
                                  j <= Len(file.header) /\ file.header[j] = column}}

RejectedFile(file) ==
    \/ Len(file.originalname) < 4
    \/ \E k \in 1..4 : file.originalname[Len(file.originalname) - 4 + k] # DotCsv[k]
    \/ \E i \in 1..Len(file.lines) :
          ColumnValues(file, i, "name") = {} \/ ColumnValues(file, i, "description") = {}

\* the new rows are the lines of the file, one team each
OneTeamPerLine(file, new) ==
    \E f \in [1..Len(file.lines) -> new] :
        /\ \A i, j \in 1..Len(file.lines) : i # j => f[i] # f[j]
        /\ \A t \in new : \E i \in 1..Len(file.lines) : f[i] = t
        /\ \A i \in 1..Len(file.lines) :
              /\ DOMAIN f[i] = {"id", "name", "description"}
              /\ {f[i].name} = ColumnValues(file, i, "name")
              /\ {f[i].description} = ColumnValues(file, i, "description")

\* C1: every upload either fails with BadInput and leaves the teams as they
\* were (the name does not end in ".csv", or some row, at whatever
\* position, lacks name or description), or succeeds and adds exactly one
\* team per row, with that row's name and description and nothing else.
C1_CreateAllOrNothing ==
    [][response'.op = "create" =>
         LET file == response'.call.file
         IN  IF RejectedFile(file)
             THEN response'.status = "BadInput" /\ teams' = teams
             ELSE /\ response'.status = "ok"
                  /\ teams \subseteq teams'
                  /\ \A t \in teams' \ teams : \A u \in teams : u.id # t.id
                  /\ OneTeamPerLine(file, teams' \ teams)]_vars

\* an upload whose second row lacks a column was refused while teams exist
C1_Witness ==
    /\ response.op = "create" /\ response.status = "BadInput"
    /\ teams # {}
    /\ response.call.file.originalname = <<"t", ".", "c", "s", "v">>
    /\ response.call.file.header = <<"name", "description">>
    /\ response.call.file.lines = << <<"A", "B">>, <<"A">> >>

---------------------------------------------------------------------------
(* C2: an id that matches no team *)

Ids(rows) == {t.id : t \in rows}

\* the step is the lookup of team id by getTeam, updateTeam or deleteTeam
LooksUp(r, id) ==
    \/ findOne(r, id)
    \/ \E patch \in Patches : updateVerify(r, id, patch)
    \/ deleteVerify(r, id)

\* C2: getTeam, updateTeam and deleteTeam of an id that matches no team fail
\* with NotFound, change no row and go on to no update or delete; getTeam
\* of an id that exists returns that team; the delete statement of
\* deleteTeam removes the row of that id and no other.
C2_NotFoundLeavesStore ==
    [][\A r \in Reqs :
         /\ \A id \in TeamIds :
               LooksUp(r, id) /\ id \notin Ids(teams) =>
                   /\ response'.status = "NotFound"
                   /\ response'.call.id = id
                   /\ req'[r] = Idle
                   /\ store' = store
         /\ \A id \in TeamIds :
               findOne(r, id) /\ id \in Ids(teams) =>
                   /\ response'.status = "ok"
                   /\ Len(response'.res) = 1
                   /\ response'.res[1] \in teams
                   /\ response'.res[1].id = id
         /\ deleteWrite(r) =>
               /\ teams' \subseteq teams
               /\ Ids(teams \ teams') = Ids(teams) \cap {req[r].call.id}
               /\ response'.status = "ok"]_vars

\* deleteTeam of an id that matches no team has failed, with another team
\* in the store
C2_Witness ==
    /\ response.op = "delete" /\ response.status = "NotFound"
    /\ teams # {}
    /\ response.call.id \notin Ids(teams)

---------------------------------------------------------------------------
(* C7: what updateTeam changes *)

\* C7: the update statement of updateTeam changes, on the team of that id,
\* the fields that the patch gives and no other, keeps its id, and leaves
\* every other team as it was.
C7_UpdateOnlyPatchedFields ==
    [][\A r \in Reqs :
         updateWrite(r) =>
           LET id == req[r].call.id
               patch == req[r].call.patch
           IN  /\ response'.op = "update" /\ response'.status = "ok"
               /\ Ids(teams') = Ids(teams)
               /\ Cardinality(teams') = Cardinality(teams)
               /\ \A t \in teams : t.id # id => t \in teams'
               /\ \A t \in teams, u \in teams' :
                     t.id = id /\ u.id = id =>
                       /\ u.name = (IF patch.name = "-" THEN t.name ELSE patch.name)
                       /\ u.description = (IF patch.description = "-" THEN t.description
                                            ELSE patch.description)]_vars

\* a patch of the name alone has been applied: the name is the new one and
\* the description is still the uploaded one
C7_Witness ==
    /\ response.op = "update" /\ response.status = "ok"
    /\ response.call.patch = [name |-> "C", description |-> "-"]
    /\ \E t \in teams : t.id = response.call.id /\ t.name = "C" /\ t.description = "B"
    /\ \E t \in teams : t.id # response.call.id

---------------------------------------------------------------------------
(* C10: the existence check and the write *)

\* C10 as claimed: the update or delete statement of a call is applied
\* only while a team with that id is in the store.
C10_CheckAndWriteAtomic ==
    [][\A r \in Reqs :
         updateWrite(r) \/ deleteWrite(r) => req[r].call.id \in Ids(teams)]_vars

\* C10 as the code has it: a call goes on to its write only if the team was
\* there when verifyTeamById ran, and it then reports success whatever has
\* happened since; if the team is gone by then the write changes nothing.
C10_CheckThenWrite ==
    [][\A r \in Reqs :
         /\ req[r].pc = "idle" /\ req'[r].pc = "write" => req'[r].call.id \in Ids(teams)
         /\ response'.op \in {"update", "delete"} /\ response'.status = "ok" /\ req'[r] # req[r]
               => req[r].pc = "write" /\ req[r].op = response'.op
         /\ updateWrite(r) \/ deleteWrite(r) =>
               /\ response'.status = "ok"
               /\ req[r].call.id \notin Ids(teams) => teams' = teams]_vars

\* updateTeam has reported success for an id that another request deleted
\* after the check
C10_Witness ==
    /\ response.op = "update" /\ response.status = "ok"
    /\ response.call.id \notin Ids(teams)
    /\ teams # {}

---------------------------------------------------------------------------
(* C3: the cached two-filter search *)

\* C3: a two-filter listPlayers that finds the entry "searchAllPlayers"
\* returns the stored rows and goes on to no store query; the entry keeps
\* the rows of the call that stored it until five minutes have passed
\* since, and is gone after that; a call that finds no entry goes on to a
\* store query and stores its rows with a TTL of five minutes again.
C3_CachedSearchWithinTtl ==
    [][/\ (response'.op = "findAllPlayers" /\ BothSupplied(response'.call.query) /\ req' = req)
            => /\ searchAllPlayers.present
               /\ response'.res = searchAllPlayers.val /\ response'.status = "ok"
               /\ store' = store /\ cache' = cache
       /\ \A r \in Reqs :
            /\ (req[r].pc = "idle" /\ req'[r].op = "findAllPlayers")
                 => ~searchAllPlayers.present /\ req'[r].pc = "query"
            /\ (req[r].op = "findAllPlayers" /\ req[r].pc = "set" /\ req'[r] # req[r])
                 => /\ searchAllPlayers'.present
                    /\ searchAllPlayers'.val = req[r].val
                    /\ searchAllPlayers'.ttl = SearchTtl /\ searchAllPlayers'.age = 0
                    /\ response'.res = req[r].val
       /\ \A d \in Delays :
            tick(d) =>
              IF searchAllPlayers.age + d < SearchTtl
              THEN searchAllPlayers'.present /\ searchAllPlayers'.val = searchAllPlayers.val
              ELSE ~searchAllPlayers'.present
       /\ (searchAllPlayers.present /\ searchAllPlayers'.present
              /\ \A r \in Reqs : req[r].pc # "set")
            => searchAllPlayers'.val = searchAllPlayers.val
      ]_vars

\* a two-filter search has been answered from an entry stored four
\* minutes before
C3_Witness ==
    /\ response.op = "findAllPlayers" /\ BothSupplied(response.call.query)
    /\ searchAllPlayers.present /\ searchAllPlayers.age = SearchTtl - 1
    /\ response.res = searchAllPlayers.val
    /\ response.res # NoRows

---------------------------------------------------------------------------
(* C4: listPlayers returns the players that match its own filters *)

NoWildcard(f) == \A i \in 1..Len(f) : f[i] \notin {"%", "_"}

\* the players whose name contains q.name and whose nickname contains
\* q.nickname, in the store's order
PlayersContaining(q) ==
    RowsInOrder({p \in players : Contains(p.name, q.name) /\ Contains(p.nickname, q.nickname)})

\* C4 as claimed, for filters of letters: a listPlayers call returns the
\* players in the store, when it reads, that contain its own filters,
\* whatever page and page_size it gives and whatever calls came before.
C4_ListPlayersOwnFilters ==
    [][\A r \in Reqs :
         /\ \A q \in Queries :
               (findAllPlayersDirect(r, q) \/ findAllPlayersGet(r, q))
               /\ NoWildcard(q.name) /\ NoWildcard(q.nickname)
               /\ response'.op = "findAllPlayers"
                 => response'.res = PlayersContaining(q)
         /\ findAllPlayersQuery(r)
               /\ NoWildcard(req[r].call.query.name) /\ NoWildcard(req[r].call.query.nickname)
                 => req'[r].val = PlayersContaining(req[r].call.query)
         /\ findAllPlayersSet(r) => response'.res = req[r].val]_vars

---------------------------------------------------------------------------
(* C6: listPlayersByTeam *)

Max(a, b) == IF a >= b THEN a ELSE b

\* the players of the team that contain the filters, in the store's order
TeamPlayersContaining(teamId, q) ==
    RowsInOrder({p \in players : /\ p.team_id = teamId
                                 /\ Contains(p.name, q.name)
                                 /\ Contains(p.nickname, q.nickname)})

\* rows (page-1)*page_size .. page*page_size-1 of the matching rows,
\* counted from 0
PageOf(rows, page, page_size) ==
    [i \in 1..Max(0, Min(page_size, Len(rows) - (page - 1) * page_size))
        |-> rows[(page - 1) * page_size + i]]

\* C6 as claimed: listPlayersByTeam returns the page (page 1 and 10 rows by
\* default) of the players of the team whose name and nickname contain the
\* filters, at most page_size rows, and leaves the cache alone.
C6_TeamPlayersPage ==
    [][response'.op = "findPlayersByTeamId" =>
         LET q == response'.call.query
             page == IF q.page = <<>> THEN 1 ELSE q.page[1]
             page_size == IF q.page_size = <<>> THEN 10 ELSE q.page_size[1]
         IN  /\ response'.res =
                   PageOf(TeamPlayersContaining(response'.call.id, q), page, page_size)
             /\ Len(response'.res) <= page_size
             /\ cache' = cache]_vars

---------------------------------------------------------------------------
(* C5: getTeamStats *)

\* one row per team with the number of its players and of its support
\* messages, counted in the store as it is
CurrentStats ==
    RowsInOrder({[id |-> t.id, name |-> t.name,
                  playerCount |-> Cardinality({p \in players : p.team_id = t.id}),
                  supportMessageCount |->
                      Cardinality({m \in supportMessages : m.team_id = t.id})] :
                 t \in teams})

\* C5 as claimed: whatever getTeamStats returns is the current counts of
\* the store it reads, be it answered from the cache or from a query.
C5_StatsAlwaysCurrent ==
    [][/\ (response'.op = "getTeamStats" /\ req' = req) => response'.res = CurrentStats
       /\ \A r \in Reqs :
            /\ (req[r].op = "getTeamStats" /\ req[r].pc = "query" /\ req'[r] # req[r])
                 => req'[r].val = CurrentStats
            /\ (req[r].op = "getTeamStats" /\ req[r].pc = "set" /\ req'[r] # req[r])
                 => response'.res = req[r].val]_vars

\* C5: a getTeamStats call that finds no entry "teamStats" returns one row
\* per team with the team's distinct players and support messages as its
\* store query found them; a call that finds the entry returns the entry,
\* whatever the store holds by then.
C5_StatsCurrentOnMiss ==
    [][/\ (response'.op = "getTeamStats" /\ req' = req)
            => /\ teamStats.present
               /\ response'.res = teamStats.val /\ response'.status = "ok"
       /\ \A r \in Reqs :
            /\ (req[r].pc = "idle" /\ req'[r].op = "getTeamStats")
                 => ~teamStats.present /\ req'[r].pc = "query"
            /\ (req[r].op = "getTeamStats" /\ req[r].pc = "query" /\ req'[r] # req[r])
                 => req'[r].val = CurrentStats /\ req'[r].pc = "set"
            /\ (req[r].op = "getTeamStats" /\ req[r].pc = "set" /\ req'[r] # req[r])
                 => /\ response'.op = "getTeamStats" /\ response'.status = "ok"
                    /\ response'.res = req[r].val]_vars

\* getTeamStats has returned, from its own query, a team with two players
\* and one support message
C5_Witness ==
    /\ response.op = "getTeamStats" /\ response.res = CurrentStats
    /\ \E i \in 1..Len(response.res) :
          response.res[i].playerCount = 2 /\ response.res[i].supportMessageCount = 1

---------------------------------------------------------------------------
(* C8: the write operations and the cache *)

\* C8: no step of createTeams, updateTeam or deleteTeam touches the cache;
\* an entry "teamStats" stays as stored, and a getTeamStats call that finds
\* it returns it and issues no store query.
C8_WritesLeaveCache ==
    [][/\ (\/ response'.op \in {"create", "update", "delete"}
           \/ \E r \in Reqs : /\ req'[r] # req[r]
                               /\ \/ req[r].op \in {"update", "delete"}
                                  \/ req'[r].op \in {"update", "delete"})
            => cache' = cache
       /\ (teamStats.present /\ \A r \in Reqs : req[r].op # "getTeamStats")
            => teamStats' = teamStats
       /\ \A r \in Reqs :
            (teamStats.present /\ req[r].pc = "idle")
              => req'[r].op # "getTeamStats"
       /\ (response'.op = "getTeamStats" /\ teamStats.present)
            => response'.res = teamStats.val /\ req' = req /\ store' = store]_vars

\* getTeamStats has answered from the entry although a write has changed
\* the number of teams since the entry was stored
C8_Witness ==
    /\ response.op = "getTeamStats"
    /\ teamStats.present /\ response.res = teamStats.val
    /\ Len(teamStats.val) # Cardinality(teams)

---------------------------------------------------------------------------
(* C9: two requests that miss the same key *)

\* C9 as claimed: of two requests that missed the same key, the one that
\* writes last (the entry is there already, written by the other) leaves
\* in the entry what a store query at the time of its write would return.
C9_LastWriteIsCurrent ==
    [][\A r \in Reqs :
         /\ (req[r].op = "getTeamStats" /\ req[r].pc = "set" /\ req'[r] # req[r]
                /\ teamStats.present)
              => teamStats'.val = TeamStatsQuery
         /\ (req[r].op = "findAllPlayers" /\ req[r].pc = "set" /\ req'[r] # req[r]
                /\ searchAllPlayers.present)
              => searchAllPlayers'.val = AllPlayersQuery(req[r].call.query)]_vars

\* C9: a request that misses goes on to its store query and its cache
\* write whatever the other request does; its query reads the store as it
\* is then, its write replaces the entry with the rows it read, and it
\* returns those rows.
C9_LastWriteWins ==
    [][\A r \in Reqs :
         /\ (req[r].op = "getTeamStats" /\ req[r].pc = "query" /\ req'[r] # req[r])
              => req'[r].pc = "set" /\ req'[r].val = TeamStatsQuery
         /\ (req[r].op = "findAllPlayers" /\ req[r].pc = "query" /\ req'[r] # req[r])
              => req'[r].pc = "set" /\ req'[r].val = AllPlayersQuery(req[r].call.query)
         /\ (req[r].op = "getTeamStats" /\ req[r].pc = "set" /\ req'[r] # req[r])
              => /\ teamStats'.present /\ teamStats'.val = req[r].val
                 /\ response'.op = "getTeamStats" /\ response'.res = req[r].val
         /\ (req[r].op = "findAllPlayers" /\ req[r].pc = "set" /\ req'[r] # req[r])
              => /\ searchAllPlayers'.present /\ searchAllPlayers'.val = req[r].val
                 /\ response'.op = "findAllPlayers" /\ response'.res = req[r].val]_vars

\* one request has written the current counts to "teamStats" while the
\* other, which missed too, is about to overwrite them with older ones
C9_Witness ==
    /\ response.op = "getTeamStats"
    /\ teamStats.present /\ teamStats.val = TeamStatsQuery
    /\ \E r \in Reqs : /\ req[r].op = "getTeamStats" /\ req[r].pc = "set"
                        /\ req[r].val # teamStats.val

===========================================================================
